---- MODULE Spec2Model ----
(***************************************************************************)
(* One run of tiff_info_extractor_from_coordinates.py: a raster is read,   *)
(* its bounds are reprojected for display, coordinates are entered in one  *)
(* of three input modes, every coordinate is looked up in the raster, the  *)
(* row with the largest extracted value is selected and the map is drawn.  *)
(*                                                                         *)
(* Numbers are integers.  A pixel or result value is a tagged record: a    *)
(* number, NaN (a float raster's missing sample) or Python's None.         *)
(***************************************************************************)
EXTENDS Integers, Sequences, FiniteSets, TLC

\* Largest number of pixels (height * width) of a raster.
MaxCells == 2
\* Largest number of lines / CSV rows submitted in one run.
MaxPts == 2

None == [k |-> "none", v |-> 0]
NaN == [k |-> "nan", v |-> 0]
Num(n) == [k |-> "num", v |-> n]

PixelValues == {Num(1), Num(5), NaN}

\* (lat, lon) inputs: inside the first cell, one cell east, one cell south,
\* one and two cells north of the raster (invalid latitudes), one cell west.
Pts == {<<89, 1>>, <<89, 3>>, <<87, 1>>, <<91, 1>>, <<93, 1>>, <<89, -1>>}

CRSs == {"EPSG:4326", "PROJECTED", "NONE"}

Shapes == {s \in (1..MaxCells) \X (1..MaxCells) : s[1] * s[2] <= MaxCells}

VARIABLES
    pc,            \* position in the script
    band,          \* src.read(1)
    height, width, \* band.shape
    crs,           \* src.crs
    transform,     \* src.transform (north-up affine)
    bounds,        \* src.bounds (native CRS)
    bounds4326,    \* transform_bounds result, or NoBounds for Python None
    boundsShown,   \* what the second metadata column showed
    raw,           \* what the user submitted in the chosen input mode
    coords,        \* list of tuples built by the input mode
    inputError,    \* st.error shown by the input mode
    i,             \* index of the next element of coords in the for loop
    calls,         \* arguments of each transformer.transform call, in order
    results,       \* list of result dicts
    df_result,     \* pd.DataFrame(results)
    max_row,       \* selected row, or NoRow for Python None
    noValidWarning,\* "No valid raster values extracted." shown
    markers,       \* number of blue markers added to the map
    maxMarker,     \* the green max-value marker was added
    uncaught       \* exception that escaped the script, or "none"

vars == <<pc, band, height, width, crs, transform, bounds, bounds4326,
          boundsShown, raw, coords, inputError, i, calls, results,
          df_result, max_row, noValidWarning, markers, maxMarker, uncaught>>

rasterVars == <<band, height, width, crs, transform, bounds>>

-----------------------------------------------------------------------------
\* Raster geometry

\* Pixel (0,0) has its upper-left corner at (c, f); pixels are a wide and
\* -e high.  The projected CRS measures in hundredths of a degree.
GeoTransform(r) ==
    IF r = "PROJECTED"
    THEN [a |-> 200, c |-> 0, e |-> -200, f |-> 9000]
    ELSE [a |-> 2, c |-> 0, e |-> -2, f |-> 90]

\* src.bounds: (left, bottom, right, top)
DatasetBounds(t, h, w) ==
    [left |-> t.c, bottom |-> t.f + t.e * h, right |-> t.c + t.a * w, top |-> t.f]

NoBounds == [left |-> 0, bottom |-> 0, right |-> 0, top |-> 0]

\* rasterio.warp.transform_bounds(crs, "EPSG:4326", *bounds) when it succeeds
TransformBounds(r, b) ==
    IF r = "EPSG:4326" THEN b
    ELSE [left |-> b.left \div 100, bottom |-> b.bottom \div 100,
          right |-> b.right \div 100, top |-> b.top \div 100]

-----------------------------------------------------------------------------
\* Per-point lookup

\* transformer.transform(xx, yy) of Transformer.from_crs("EPSG:4326", crs,
\* always_xy=True): xx is the longitude, yy the latitude.  Same-CRS is a
\* no-op; the projected CRS yields inf outside the geographic domain.
TransformerTransform(r, xx, yy) ==
    IF r = "EPSG:4326" THEN [fin |-> TRUE, x |-> xx, y |-> yy]
    ELSE IF yy \in -90..90 /\ xx \in -180..180
         THEN [fin |-> TRUE, x |-> xx * 100, y |-> yy * 100]
         ELSE [fin |-> FALSE, x |-> 0, y |-> 0]

\* src.index(x, y): floor of the inverse affine transform, no bounds check
SrcIndex(t, x, y) ==
    [row |-> (t.f - y) \div (0 - t.e), col |-> (x - t.c) \div t.a]

\* numpy accepts an index k on an axis of length n when -n <= k < n
AxisOk(k, n) == k >= 0 - n /\ k < n

\* numpy counts a negative index from the end of the axis
AxisPos(k, n) == IF k < 0 THEN k + n ELSE k

\* band[row, col]
BandRead(row, col) ==
    IF AxisOk(row, height) /\ AxisOk(col, width)
    THEN [raised |-> FALSE, val |-> band[<<AxisPos(row, height), AxisPos(col, width)>>]]
    ELSE [raised |-> TRUE, val |-> None]

\* The body of the try block for one (lat, lon)
TryBlock(lat, lon) ==
    LET p == TransformerTransform(crs, lon, lat)
    IN IF ~p.fin THEN [raised |-> TRUE, val |-> None]
       ELSE LET rc == SrcIndex(transform, p.x, p.y)
            IN BandRead(rc.row, rc.col)

ResultRow(lat, lon, val) == [lat |-> lat, lon |-> lon, value |-> val]

\* results.append in the try block
TryAppend(res, lat, lon, val) == Append(res, ResultRow(lat, lon, val))

\* An except block that records nothing for the failing point
ExceptSkip(res, lat, lon) == res

\* An except block that starts the list over at the failing point
ExceptReset(res, lat, lon) == <<ResultRow(lat, lon, None)>>

\* results.append in the except block
ExceptAppend(res, lat, lon) == Append(res, ResultRow(lat, lon, None))

-----------------------------------------------------------------------------
\* Coordinate input

Tok(n) == [ok |-> TRUE, v |-> n]
BadTok == [ok |-> FALSE, v |-> 0]

\* A line of the text area, as the tokens between its commas.
PairLine(p) == <<Tok(p[1]), Tok(p[2])>>
Lines ==
    {PairLine(p) : p \in Pts}
        \cup {<<Tok(89)>>, <<Tok(89), Tok(1), Tok(3)>>, <<Tok(89), BadTok>>}

SeqsUpTo(S, n) == UNION {[1..m -> S] : m \in 0..n}

\* Column layouts of an uploaded CSV
Layouts == {<<"lat", "lon">>, <<"lon", "lat">>, <<"lat">>}

NoInput ==
    [mode |-> "none", submitted |-> FALSE, lat |-> 0, lon |-> 0,
     lines |-> <<>>, cols |-> <<>>, rows |-> <<>>]

\* "," in line
HasComma(line) == Len(line) >= 2

\* tuple(map(float, line.split(","))): float raises on a token that is no number
LineRaises(line) == \E k \in 1..Len(line) : ~line[k].ok
LineTuple(line) == [k \in 1..Len(line) |-> line[k].v]

\* The list comprehension over text_input.strip().splitlines()
ParseText(lines) ==
    LET kept == SelectSeq(lines, HasComma)
    IN IF \E k \in 1..Len(kept) : LineRaises(kept[k])
       THEN [raised |-> TRUE, coords |-> <<>>]
       ELSE [raised |-> FALSE, coords |-> [k \in 1..Len(kept) |-> LineTuple(kept[k])]]

\* Position of a named column, 0 when the CSV has no such column
ColPos(cols, name) ==
    IF \E k \in 1..Len(cols) : cols[k] = name
    THEN CHOOSE k \in 1..Len(cols) : cols[k] = name
    ELSE 0

\* A zip that takes the first two columns whatever their names
ZipFirstTwo(cols, rows) == [k \in 1..Len(rows) |-> <<rows[k][1], rows[k][2]>>]

\* list(zip(df_csv["lat"], df_csv["lon"]))
ZipLatLon(cols, rows) ==
    [k \in 1..Len(rows) |->
        <<rows[k][ColPos(cols, "lat")], rows[k][ColPos(cols, "lon")]>>]

-----------------------------------------------------------------------------
\* Maximum selection

\* pd.DataFrame(results): a value column holding a number becomes a float
\* column, in which None is stored as NaN; an all-None column stays as it is.
DataFrame(res) ==
    IF \E j \in 1..Len(res) : res[j].value # None
    THEN [j \in 1..Len(res) |->
            [res[j] EXCEPT !.value = IF @ = None THEN NaN ELSE @]]
    ELSE res

Notna(v) == v.k = "num"

\* A test that only rules out None
NotNoneAny(df) == \E j \in 1..Len(df) : df[j].value # None

\* df_result["value"].notna().any()
NotnaAny(df) == \E j \in 1..Len(df) : Notna(df[j].value)

\* The first non-NA position, whatever its value
IdxFirstValid(df) ==
    IF \A j \in 1..Len(df) : ~Notna(df[j].value) THEN 0
    ELSE CHOOSE j \in 1..Len(df) :
           Notna(df[j].value) /\ \A m \in 1..(j - 1) : ~Notna(df[m].value)

\* The last occurrence of the largest non-NA value
IdxMaxLast(df) ==
    IF \A j \in 1..Len(df) : ~Notna(df[j].value) THEN 0
    ELSE CHOOSE j \in 1..Len(df) :
           /\ Notna(df[j].value)
           /\ \A m \in 1..Len(df) :
                Notna(df[m].value) =>
                  /\ df[m].value.v <= df[j].value.v
                  /\ (m > j => df[m].value.v < df[j].value.v)

\* df_result["value"].idxmax(): position of the first occurrence of the
\* largest non-NA value (1-based here); 0 stands for the NaN label pandas
\* yields when there is none.
IdxMax(df) ==
    IF \A j \in 1..Len(df) : ~Notna(df[j].value) THEN 0
    ELSE CHOOSE j \in 1..Len(df) :
           /\ Notna(df[j].value)
           /\ \A m \in 1..Len(df) :
                Notna(df[m].value) =>
                  /\ df[m].value.v <= df[j].value.v
                  /\ (m < j => df[m].value.v < df[j].value.v)

NoRow == [idx |-> 0, lat |-> 0, lon |-> 0, value |-> None]

\* df_result.loc[label]
Loc(df, j) == [idx |-> j, lat |-> df[j].lat, lon |-> df[j].lon, value |-> df[j].value]

-----------------------------------------------------------------------------
Init ==
    /\ pc = "bounds"
    /\ crs \in CRSs
    /\ \E s \in Shapes :
         /\ height = s[1]
         /\ width = s[2]
         /\ band \in [(0..(s[1] - 1)) \X (0..(s[2] - 1)) -> PixelValues]
    /\ transform = GeoTransform(crs)
    /\ bounds = DatasetBounds(transform, height, width)
    /\ bounds4326 = NoBounds
    /\ boundsShown = "nothing"
    /\ raw = NoInput
    /\ coords = <<>>
    /\ inputError = "none"
    /\ i = 1
    /\ calls = <<>>
    /\ results = <<>>
    /\ df_result = <<>>
    /\ max_row = NoRow
    /\ noValidWarning = FALSE
    /\ markers = 0
    /\ maxMarker = FALSE
    /\ uncaught = "none"

inputVars == <<raw, coords, inputError>>
loopVars == <<i, calls, results>>
maxVars == <<df_result, max_row, noValidWarning>>
mapVars == <<markers, maxMarker>>

\* try: bounds4326 = transform_bounds(...) succeeds, then the metadata
\* columns show the four bound values.
TransformBoundsOk ==
    /\ pc = "bounds"
    /\ crs # "NONE"
    /\ bounds4326' = TransformBounds(crs, bounds)
    /\ boundsShown' = "values"
    /\ pc' = "input"
    /\ UNCHANGED <<rasterVars, inputVars, loopVars, maxVars, mapVars, uncaught>>

\* transform_bounds raises and nothing catches it
TransformBoundsRaise ==
    /\ pc = "bounds"
    /\ crs # "EPSG:4326"
    /\ pc' = "crashed"
    /\ uncaught' = "CRSError"
    /\ UNCHANGED <<rasterVars, bounds4326, boundsShown, inputVars, loopVars, maxVars, mapVars>>

\* transform_bounds raises (no CRS, or a projection failure); the except
\* clause sets bounds4326 = None and the metadata column shows the warning.
TransformBoundsFail ==
    /\ pc = "bounds"
    /\ crs # "EPSG:4326"
    /\ bounds4326' = NoBounds
    /\ boundsShown' = "warning"
    /\ pc' = "input"
    /\ UNCHANGED <<rasterVars, inputVars, loopVars, maxVars, mapVars, uncaught>>

\* input_mode == "Single coordinate"
SingleCoordinate ==
    /\ pc = "input"
    /\ \E p \in Pts, submitted \in BOOLEAN :
         /\ raw' = [NoInput EXCEPT !.mode = "single", !.submitted = submitted,
                                   !.lat = p[1], !.lon = p[2]]
         /\ coords' = IF submitted THEN <<<<p[1], p[2]>>>> ELSE <<>>
    /\ inputError' = "none"
    /\ pc' = "process"
    /\ UNCHANGED <<rasterVars, bounds4326, boundsShown, loopVars, maxVars, mapVars, uncaught>>

\* input_mode == "Multiple coordinates", form submitted
MultipleCoordinates ==
    /\ pc = "input"
    /\ \E lines \in SeqsUpTo(Lines, MaxPts) :
         LET parsed == ParseText(lines)
         IN /\ raw' = [NoInput EXCEPT !.mode = "multi", !.submitted = TRUE,
                                      !.lines = lines]
            /\ coords' = IF Len(lines) = 0 THEN <<>> ELSE parsed.coords
            /\ inputError' = IF Len(lines) > 0 /\ parsed.raised
                             THEN "Invalid coordinate format" ELSE "none"
    /\ pc' = "process"
    /\ UNCHANGED <<rasterVars, bounds4326, boundsShown, loopVars, maxVars, mapVars, uncaught>>

\* input_mode == "Upload CSV (lat, lon)", file uploaded and button pressed
UploadCSV ==
    /\ pc = "input"
    /\ \E cols \in Layouts, pts \in SeqsUpTo(Pts, MaxPts) :
         LET rows == [k \in 1..Len(pts) |->
                        [c \in 1..Len(cols) |->
                            IF cols[c] = "lat" THEN pts[k][1] ELSE pts[k][2]]]
             named == ColPos(cols, "lat") # 0 /\ ColPos(cols, "lon") # 0
         IN /\ raw' = [NoInput EXCEPT !.mode = "csv", !.submitted = TRUE,
                                      !.cols = cols, !.rows = rows]
            /\ coords' = IF named THEN ZipLatLon(cols, rows) ELSE <<>>
            /\ inputError' = IF named THEN "none" ELSE "CSV must contain lat and lon"
    /\ pc' = "process"
    /\ UNCHANGED <<rasterVars, bounds4326, boundsShown, loopVars, maxVars, mapVars, uncaught>>

\* if coords: ... Transformer.from_crs("EPSG:4326", src.crs, always_xy=True)
BeginProcess ==
    /\ pc = "process"
    /\ IF coords = <<>>
       THEN pc' = "done" /\ uncaught' = uncaught
       ELSE IF crs = "NONE"
            THEN pc' = "crashed" /\ uncaught' = "CRSError"
            ELSE pc' = "loop" /\ uncaught' = uncaught
    /\ UNCHANGED <<rasterVars, bounds4326, boundsShown, inputVars, loopVars, maxVars, mapVars>>

\* One iteration of: for lat, lon in coords: try ... except Exception ...
LoopStep ==
    /\ pc = "loop"
    /\ i <= Len(coords)
    /\ IF Len(coords[i]) # 2
       THEN /\ pc' = "crashed"
            /\ uncaught' = "ValueError"
            /\ UNCHANGED loopVars
       ELSE LET lat == coords[i][1]
                lon == coords[i][2]
                t == TryBlock(lat, lon)
            IN /\ calls' = Append(calls, [x |-> lon, y |-> lat])
               /\ results' = IF t.raised
                             THEN ExceptAppend(results, lat, lon)
                             ELSE TryAppend(results, lat, lon, t.val)
               /\ i' = i + 1
               /\ UNCHANGED <<pc, uncaught>>
    /\ UNCHANGED <<rasterVars, bounds4326, boundsShown, inputVars, maxVars, mapVars>>

\* df_result = pd.DataFrame(results); if notna().any(): idxmax ... else ...
FindMax ==
    /\ pc = "loop"
    /\ i > Len(coords)
    /\ df_result' = DataFrame(results)
    /\ IF NotnaAny(df_result')
       THEN LET j == IdxMax(df_result')
            IN IF j = 0
               THEN /\ pc' = "crashed"
                    /\ uncaught' = "KeyError"
                    /\ UNCHANGED <<max_row, noValidWarning>>
               ELSE /\ max_row' = Loc(df_result', j)
                    /\ pc' = "map"
                    /\ UNCHANGED <<noValidWarning, uncaught>>
       ELSE /\ max_row' = NoRow
            /\ noValidWarning' = TRUE
            /\ pc' = "map"
            /\ UNCHANGED uncaught
    /\ UNCHANGED <<rasterVars, bounds4326, boundsShown, inputVars, loopVars, mapVars>>

\* One blue marker per row, and the green marker when max_row is not None
MapVisualization ==
    /\ pc = "map"
    /\ markers' = Len(df_result)
    /\ maxMarker' = (max_row # NoRow)
    /\ pc' = "done"
    /\ UNCHANGED <<rasterVars, bounds4326, boundsShown, inputVars, loopVars, maxVars, uncaught>>

Next ==
    \/ TransformBoundsOk
    \/ TransformBoundsFail
    \/ SingleCoordinate
    \/ MultipleCoordinates
    \/ UploadCSV
    \/ BeginProcess
    \/ LoopStep
    \/ FindMax
    \/ MapVisualization

Spec == Init /\ [][Next]_vars
-----------------------------------------------------------------------------
\* Vocabulary of the properties

AllPairs == \A k \in 1..Len(coords) : Len(coords[k]) = 2

\* The for loop has been entered / has run to its end
LoopEntered == pc \in {"loop", "map"} \/ (pc = "done" /\ coords # <<>>)
LoopFinished ==
    (pc = "loop" /\ i > Len(coords)) \/ pc = "map" \/ (pc = "done" /\ coords # <<>>)
AfterFindMax == pc = "map" \/ (pc = "done" /\ coords # <<>>)

\* The lookup of (lat, lon) raises inside the try block
Fails(lat, lon) == TryBlock(lat, lon).raised
PairFails(c) == Fails(c[1], c[2])
PairSucceeds(c) == ~Fails(c[1], c[2])

\* The cell src.index derives for (lat, lon), and the cell numpy then reads
DerivedCell(lat, lon) ==
    LET p == TransformerTransform(crs, lon, lat) IN SrcIndex(transform, p.x, p.y)
ReadCell(lat, lon) ==
    LET rc == DerivedCell(lat, lon)
    IN [row |-> AxisPos(rc.row, height), col |-> AxisPos(rc.col, width)]
RowMajor(cell) == cell.row * width + cell.col

\* The native-CRS position of (lat, lon) exists and lies outside the grid
Outside(lat, lon) ==
    /\ TransformerTransform(crs, lon, lat).fin
    /\ LET rc == DerivedCell(lat, lon)
       IN rc.row < 0 \/ rc.row >= height \/ rc.col < 0 \/ rc.col >= width

FiniteCells == {c \in DOMAIN band : Notna(band[c])}
GridMax == CHOOSE m \in {band[c].v : c \in FiniteCells} :
             \A c \in FiniteCells : band[c].v <= m

\* What a batch of pairs yields when looked up point by point on its own
RECURSIVE ExtractAll(_)
ExtractAll(cs) ==
    IF cs = <<>> THEN <<>>
    ELSE LET c == cs[Len(cs)]
             t == TryBlock(c[1], c[2])
         IN Append(ExtractAll(SubSeq(cs, 1, Len(cs) - 1)),
                   ResultRow(c[1], c[2], IF t.raised THEN None ELSE t.val))

IsPresent(r) == r.value # None

\* The j-th (lat, lon) as the user entered it in the chosen input mode
RawPair(j) ==
    IF raw.mode = "single" THEN <<raw.lat, raw.lon>>
    ELSE IF raw.mode = "multi"
         THEN LET kept == SelectSeq(raw.lines, HasComma)
              IN <<kept[j][1].v, kept[j][2].v>>
         ELSE <<raw.rows[j][ColPos(raw.cols, "lat")],
                raw.rows[j][ColPos(raw.cols, "lon")]>>

-----------------------------------------------------------------------------
\* C1: for a non-empty list of (lat, lon) pairs the loop appends exactly one
\* result per processed point, in input order, each carrying that point's
\* latitude and longitude, whatever number of points fail; at the end of the
\* loop the result list is as long as the input.
C1_LengthAndOrder ==
    (AllPairs /\ coords # <<>> /\ crs # "NONE" /\ pc \notin {"input", "process", "bounds"}) =>
        /\ pc # "crashed"
        /\ Len(results) = i - 1
        /\ Len(results) <= Len(coords)
        /\ \A j \in 1..Len(results) :
             results[j].lat = coords[j][1] /\ results[j].lon = coords[j][2]
        /\ (LoopFinished => Len(results) = Len(coords))
        /\ (AfterFindMax =>
              /\ Len(df_result) = Len(coords)
              /\ \A j \in 1..Len(df_result) :
                   df_result[j].lat = coords[j][1] /\ df_result[j].lon = coords[j][2])

C1_Witness ==
    /\ pc = "done"
    /\ Len(results) = 2
    /\ results[1].value = None
    /\ results[2].value # None
    /\ coords[1] # coords[2]

\* C2: a failure inside the try block records None for that point only and
\* the loop goes on: every failing point has None, the loop reaches its end,
\* and the results of the other points are what the batch without the
\* failing points yields.
C2_FailureIsolated ==
    (AllPairs /\ LoopEntered) =>
        /\ \A j \in 1..Len(results) :
             PairFails(coords[j]) => results[j].value = None
        /\ SelectSeq(results, IsPresent)
             = ExtractAll(SelectSeq(SubSeq(coords, 1, Len(results)), PairSucceeds))
        /\ (LoopFinished => Len(results) = Len(coords))

C2_Witness ==
    /\ pc = "done"
    /\ crs = "PROJECTED"
    /\ Len(results) = 2
    /\ results[1].lat = 91
    /\ results[1].value = None
    /\ results[2].value.k = "num"

\* C3 (as claimed): a point whose native position lies outside the grid on
\* any side gets an absent value, never a number read from the grid.
C3_OutsideIsAbsent ==
    \A j \in 1..Len(results) :
        Outside(results[j].lat, results[j].lon) => ~Notna(results[j].value)

AllInside == \A j \in 1..Len(results) : ~Outside(results[j].lat, results[j].lon)

C6_NoValidValues ==
    /\ uncaught # "KeyError"
    /\ AfterFindMax =>
        IF \A j \in 1..Len(results) : ~Notna(results[j].value)
        THEN /\ max_row = NoRow
             /\ noValidWarning
             /\ ~maxMarker
        ELSE /\ max_row # NoRow
             /\ ~noValidWarning
             /\ \E j \in 1..Len(results) :
                  Notna(results[j].value) /\ results[j].value = max_row.value
             /\ (pc = "done" => maxMarker)

C6_Witness ==
    /\ pc = "done"
    /\ max_row = NoRow
    /\ noValidWarning
    /\ ~maxMarker
    /\ \E j \in 1..Len(df_result) : df_result[j].value = NaN
    /\ \E j \in 1..Len(results) : results[j].value = None

\* C7 (as claimed): on every raster, also one in EPSG:4326, a point whose
\* latitude is outside [-90, 90] gets an absent value, never a number read
\* from the grid, and nothing is raised past the loop.
C7_InvalidLatitudeAbsent ==
    /\ \A j \in 1..Len(results) :
         results[j].lat \notin -90..90 => ~Notna(results[j].value)
    /\ (AllPairs => uncaught \notin {"ValueError", "KeyError"})

\* C8: in every input mode the first component entered is the latitude and
\* the second the longitude; the result records them so and the projector is
\* called with x = longitude and y = latitude.
C8_AxisOrder ==
    /\ Len(calls) = Len(results)
    /\ \A j \in 1..Len(results) :
         /\ results[j].lat = RawPair(j)[1]
         /\ results[j].lon = RawPair(j)[2]
         /\ calls[j] = [x |-> RawPair(j)[2], y |-> RawPair(j)[1]]

C8_Witness ==
    /\ pc = "done"
    /\ raw.mode = "csv"
    /\ raw.cols = <<"lon", "lat">>
    /\ Len(results) = 2
    /\ results[1].lat = 87
    /\ results[1].value.k = "num"

C10_TextYieldsPairs ==
    /\ (raw.mode = "multi" => AllPairs)
    /\ uncaught # "ValueError"
====
